---- MODULE Spec2Model ----
(***************************************************************************)
(* Median-cut colour quantisation of go-check-color (src/src/palette.go):  *)
(* MedianCutPalette builds a palette of k colours from a pixel slice by    *)
(* repeatedly splitting the widest box with a quickselect, and             *)
(* CountOccurrences classifies every pixel to its nearest palette entry,   *)
(* single-threaded for small inputs and by a goroutine fan-out otherwise.  *)
(*                                                                         *)
(* Go slices are 0-indexed; the model keeps the source's 0-based indices   *)
(* and reads a slice through At(a, i) == a[i + 1].                         *)
(***************************************************************************)
EXTENDS Integers, Sequences, FiniteSets, Bags, TLC

VARIABLES
    pixels,     \* the caller's pixel slice (reordered in place by the first split)
    k,          \* MedianCutPalette's argument k
    orig,       \* history: the contents of pixels when MedianCutPalette was called
    boxes,      \* MedianCutPalette's working list of boxes (each a sequence of RGB)
    palette,    \* MedianCutPalette's result (nil is <<>>)
    pc,         \* where the caller is: idle, split (in the split loop), built
                \* (palette returned), par (workers running), counted
                \* (histogram returned), panic; off in the function harness
    workers,    \* runtime.GOMAXPROCS(0) as read by CountOccurrences
    coPalette,  \* CountOccurrences' argument palette
    parts,      \* CountOccurrences' chunks, each [from, to]
    partials,   \* partials[idx]: the histogram worker idx stored (nil is <<>>)
    wg,         \* the WaitGroup counter
    wpc,        \* per chunk, where its goroutine is: "run", "stored", "done"
    counts,     \* CountOccurrences' result
    fnOp,       \* function harness: which function is applied
    fnBuf,      \* function harness: the input buffer
    fnRank,     \* function harness: the rank argument
    fnCh,       \* function harness: the channel argument
    fnArg,      \* function harness: the other arguments of the function applied
    fnOut,      \* function harness: the result
    fnPc,       \* function harness: ready, done
    qs          \* a quickselect call run step by step: its buffer, arguments,
                \* locals and position

vars == <<pixels, k, orig, boxes, palette, pc, workers, coPalette, parts,
          partials, wg, wpc, counts, fnOp, fnBuf, fnRank, fnCh, fnArg, fnOut, fnPc, qs>>

mainVars == <<pixels, k, orig, boxes, palette, pc, workers, coPalette, parts,
              partials, wg, wpc, counts>>

fnVars == <<fnOp, fnBuf, fnRank, fnCh, fnArg, fnOut, fnPc, qs>>

(***************************************************************************)
(* Bounds of the model.                                                    *)
(***************************************************************************)
\* longest pixel slice handed to MedianCutPalette / CountOccurrences
MaxPixels == 5
\* largest k handed to MedianCutPalette (the smallest is -1)
MaxK == 4
\* largest GOMAXPROCS
MaxWorkers == 3
\* longest palette handed to CountOccurrences directly
MaxPaletteLen == 2
\* longest buffer handed to a function of the harness
MaxBuf == 4
\* longest palette handed to makeEntries, and the largest count in it
MaxEntries == 3
MaxCount == 2
\* longest buffer and largest key handed to the quickselects run step by step
MaxSelLen == 5
MaxKey == 2
\* CountOccurrences fans out from this many pixels on (len(pixels) < 5000
\* stays single-threaded); the chunking is checked at this size
ParallelThreshold == 5000
\* the chunking is checked for ParallelThreshold..ParallelThreshold + MaxExtra
\* pixels and 2..MaxProcs workers
MaxExtra == 2
MaxProcs == 80
\* CountOccurrences runs single-threaded below this many pixels.  The source
\* has 5000 here (palette.go:356); the model scales it down so that both the
\* single-threaded and the fan-out path occur within MaxPixels.
SmallInput == 3

(***************************************************************************)
(* Values.                                                                 *)
(***************************************************************************)
RGB(r, g, b) == [R |-> r, G |-> g, B |-> b]

\* The colours the inputs are drawn from: one colour off the origin along
\* each channel, so that each channel can be the dominant one, R/G range
\* ties occur, and two distinct colours can be equally near to a third.
Colors == {RGB(0, 0, 0), RGB(1, 0, 0), RGB(0, 1, 0), RGB(0, 0, 2)}

SeqsUpTo(S, lo, hi) == UNION {[1..n -> S] : n \in lo..hi}

At(a, i) == a[i + 1]

InRange(a, i) == i >= 0 /\ i < Len(a)

Swap(a, i, j) == [a EXCEPT ![i + 1] = a[j + 1], ![j + 1] = a[i + 1]]

\* uint8(x) of an int x
Uint8(x) == x % 256

SetMin(S) == CHOOSE x \in S : \A y \in S : x <= y

SetMax(S) == CHOOSE x \in S : \A y \in S : x >= y

\* the one element of a singleton set: Pick({e(x) : x \in {v}}) is e with x
\* bound to the value of v, computed once
Pick(S) == CHOOSE x \in S : TRUE

RECURSIVE SeqSum(_)
SeqSum(s) == IF s = <<>> THEN 0 ELSE Head(s) + SeqSum(Tail(s))

(***************************************************************************)
(* channelValue, channelRange                                              *)
(***************************************************************************)
channelValue(c, ch) ==
    CASE ch = 0 -> c.R
      [] ch = 1 -> c.G
      [] OTHER  -> c.B

ChannelSeq(pxs, ch) == [i \in 1..Len(pxs) |-> channelValue(pxs[i], ch)]

\* minv starts at 255 and maxv at 0; every channel value lies in 0..255
channelRange(pxs, ch) ==
    IF Len(pxs) = 0 THEN 0
    ELSE LET vs == {channelValue(pxs[i], ch) : i \in 1..Len(pxs)}
         IN  SetMax(vs \cup {0}) - SetMin(vs \cup {255})

(***************************************************************************)
(* partitionByChannel / nthElementByChannel: Hoare partition around the    *)
(* middle element and the quickselect loop over it.  A read outside the    *)
(* slice is a runtime panic, carried in the result as panic = TRUE.        *)
(***************************************************************************)
RECURSIVE ScanUpByChannel(_, _, _, _)
\* for channelValue(a[i], ch) < pivot { i++ }; stops at Len(a) on a read
\* outside the slice
ScanUpByChannel(a, i, ch, pivot) ==
    IF ~InRange(a, i) THEN i
    ELSE IF channelValue(At(a, i), ch) < pivot
         THEN ScanUpByChannel(a, i + 1, ch, pivot)
         ELSE i

RECURSIVE ScanDownByChannel(_, _, _, _)
\* for channelValue(a[j], ch) > pivot { j-- }; stops at -1 on a read outside
ScanDownByChannel(a, j, ch, pivot) ==
    IF ~InRange(a, j) THEN j
    ELSE IF channelValue(At(a, j), ch) > pivot
         THEN ScanDownByChannel(a, j - 1, ch, pivot)
         ELSE j

RECURSIVE PartitionLoopByChannel(_, _, _, _, _)
\* for i <= j { scan i up; scan j down; if i <= j { swap; i++; j-- } } of
\* partitionByChannel; returns [a, i, j, panic]
PartitionLoopByChannel(a, i, j, ch, pivot) ==
    IF i > j THEN [a |-> a, i |-> i, j |-> j, panic |-> FALSE]
    ELSE Pick({
           IF ~InRange(a, i1) \/ ~InRange(a, j1)
           THEN [a |-> a, i |-> i1, j |-> j1, panic |-> TRUE]
           ELSE IF i1 <= j1
           THEN Pick({PartitionLoopByChannel(a2, i1 + 1, j1 - 1, ch, pivot) :
                        a2 \in {Swap(a, i1, j1)}})
           ELSE PartitionLoopByChannel(a, i1, j1, ch, pivot) :
             i1 \in {ScanUpByChannel(a, i, ch, pivot)},
             j1 \in {ScanDownByChannel(a, j, ch, pivot)}})

\* returns [a (reordered), p (= i - 1), panic]
partitionByChannel(a, lo, hi, ch) ==
    IF ~InRange(a, (lo + hi) \div 2) THEN [a |-> a, p |-> lo, panic |-> TRUE]
    ELSE Pick({[a |-> st.a, p |-> st.i - 1, panic |-> st.panic] :
                 st \in {PartitionLoopByChannel(a, lo, hi, ch,
                             channelValue(At(a, (lo + hi) \div 2), ch))}})

RECURSIVE NthLoopByChannel(_, _, _, _, _)
\* for lo < hi { p := partition...; n == p: return; n < p: hi = p-1; else lo = p+1 }
NthLoopByChannel(a, lo, hi, n, ch) ==
    IF ~(lo < hi) THEN [a |-> a, panic |-> FALSE]
    ELSE Pick({
           IF r.panic THEN [a |-> r.a, panic |-> TRUE]
           ELSE IF n = r.p THEN [a |-> r.a, panic |-> FALSE]
           ELSE IF n < r.p THEN NthLoopByChannel(r.a, lo, r.p - 1, n, ch)
           ELSE NthLoopByChannel(r.a, r.p + 1, hi, n, ch) :
             r \in {partitionByChannel(a, lo, hi, ch)}})

\* returns [a (the slice after the call), panic]
nthElementByChannel(a, n, ch) ==
    IF n <= 0 \/ n >= Len(a) THEN [a |-> a, panic |-> FALSE]
    ELSE NthLoopByChannel(a, 0, Len(a) - 1, n, ch)

(***************************************************************************)
(* medianCutSplit                                                          *)
(***************************************************************************)
\* the dominant channel: greatest range, R before G before B on ties
dominantChannel(pxs) ==
    LET d1 == IF channelRange(pxs, 1) > channelRange(pxs, 0) THEN 1 ELSE 0
    IN  IF channelRange(pxs, 2) > channelRange(pxs, d1) THEN 2 ELSE d1

\* mutant of medianCutSplit: the right half starts one past mid, so the
\* sample at mid is in neither half
medianCutSplitDropsMid(pxs) ==
    Pick({[left  |-> SubSeq(sel.a, 1, Len(pxs) \div 2),
           right |-> SubSeq(sel.a, Len(pxs) \div 2 + 2, Len(pxs)),
           pxs   |-> sel.a,
           panic |-> sel.panic] :
            sel \in {nthElementByChannel(pxs, Len(pxs) \div 2, dominantChannel(pxs))}})

\* returns [left, right, pxs (the argument slice after the in-place
\* selection), panic]
medianCutSplit(pxs) ==
    Pick({[left  |-> SubSeq(sel.a, 1, Len(pxs) \div 2),
           right |-> SubSeq(sel.a, Len(pxs) \div 2 + 1, Len(pxs)),
           pxs   |-> sel.a,
           panic |-> sel.panic] :
            sel \in {nthElementByChannel(pxs, Len(pxs) \div 2, dominantChannel(pxs))}})

(***************************************************************************)
(* averageColor                                                            *)
(***************************************************************************)
\* math.Round(float64(num) / float64(den)) for num >= 0, den > 0: the
\* quotient rounded to the nearest integer, halves away from zero.  The
\* sums and counts of the model are far below 2^53, so the float64 operands
\* are exact and the correctly rounded quotient lies on the same side of
\* every half-integer as the exact one.
\* mutant of RoundDiv: the quotient truncated, not rounded
RoundDivTruncated(num, den) == num \div den

RoundDiv(num, den) == (2 * num + den) \div (2 * den)

averageColor(pxs) ==
    IF Len(pxs) = 0 THEN RGB(0, 0, 0)
    ELSE LET n == Len(pxs)
         IN  RGB(Uint8(RoundDiv(SeqSum(ChannelSeq(pxs, 0)), n)),
                 Uint8(RoundDiv(SeqSum(ChannelSeq(pxs, 1)), n)),
                 Uint8(RoundDiv(SeqSum(ChannelSeq(pxs, 2)), n)))

(***************************************************************************)
(* partitionUint8 / quickSelectUint8 / nthElementR, G, B                   *)
(***************************************************************************)
RECURSIVE ScanUpUint8(_, _, _)
ScanUpUint8(arr, i, pivot) ==
    IF ~InRange(arr, i) THEN i
    ELSE IF At(arr, i) < pivot THEN ScanUpUint8(arr, i + 1, pivot) ELSE i

RECURSIVE ScanDownUint8(_, _, _)
ScanDownUint8(arr, j, pivot) ==
    IF ~InRange(arr, j) THEN j
    ELSE IF At(arr, j) > pivot THEN ScanDownUint8(arr, j - 1, pivot) ELSE j

RECURSIVE PartitionLoopUint8(_, _, _, _)
\* the loop of partitionUint8; returns [a, i, j, panic]
PartitionLoopUint8(arr, i, j, pivot) ==
    IF i > j THEN [a |-> arr, i |-> i, j |-> j, panic |-> FALSE]
    ELSE Pick({
           IF ~InRange(arr, i1) \/ ~InRange(arr, j1)
           THEN [a |-> arr, i |-> i1, j |-> j1, panic |-> TRUE]
           ELSE IF i1 <= j1
           THEN Pick({PartitionLoopUint8(a2, i1 + 1, j1 - 1, pivot) :
                        a2 \in {Swap(arr, i1, j1)}})
           ELSE PartitionLoopUint8(arr, i1, j1, pivot) :
             i1 \in {ScanUpUint8(arr, i, pivot)},
             j1 \in {ScanDownUint8(arr, j, pivot)}})

\* returns [a, p (= i - 1), panic]
partitionUint8(arr, lo, hi) ==
    IF ~InRange(arr, (lo + hi) \div 2) THEN [a |-> arr, p |-> lo, panic |-> TRUE]
    ELSE Pick({[a |-> st.a, p |-> st.i - 1, panic |-> st.panic] :
                 st \in {PartitionLoopUint8(arr, lo, hi, At(arr, (lo + hi) \div 2))}})

RECURSIVE QuickSelectLoopUint8(_, _, _, _)
\* for lo < hi { ... }; return arr[lo].  Returns [v (the value returned), panic]
QuickSelectLoopUint8(arr, lo, hi, kk) ==
    IF ~(lo < hi)
    THEN IF InRange(arr, lo) THEN [v |-> At(arr, lo), panic |-> FALSE]
                             ELSE [v |-> 0, panic |-> TRUE]
    ELSE Pick({
           IF r.panic THEN [v |-> 0, panic |-> TRUE]
           ELSE IF kk = r.p THEN [v |-> At(r.a, kk), panic |-> FALSE]
           ELSE IF kk < r.p THEN QuickSelectLoopUint8(r.a, lo, r.p - 1, kk)
           ELSE QuickSelectLoopUint8(r.a, r.p + 1, hi, kk) :
             r \in {partitionUint8(arr, lo, hi)}})

quickSelectUint8(arr, kk) ==
    QuickSelectLoopUint8(arr, 0, Len(arr) - 1,
                         IF kk >= Len(arr) THEN Len(arr) - 1 ELSE kk)

\* temp := the R values of pxs; quickSelectUint8(temp, kk)
nthElementR(pxs, kk) ==
    Pick({quickSelectUint8(temp, kk) : temp \in {ChannelSeq(pxs, 0)}})

nthElementG(pxs, kk) ==
    Pick({quickSelectUint8(temp, kk) : temp \in {ChannelSeq(pxs, 1)}})

nthElementB(pxs, kk) ==
    Pick({quickSelectUint8(temp, kk) : temp \in {ChannelSeq(pxs, 2)}})

(***************************************************************************)
(* medianColor                                                             *)
(***************************************************************************)
\* returns [color, panic]
medianColor(pxs) ==
    IF Len(pxs) = 0 THEN [color |-> RGB(0, 0, 0), panic |-> FALSE]
    ELSE IF Len(pxs) <= 3
    THEN [color |-> RGB(Uint8(SeqSum(ChannelSeq(pxs, 0)) \div Len(pxs)),
                        Uint8(SeqSum(ChannelSeq(pxs, 1)) \div Len(pxs)),
                        Uint8(SeqSum(ChannelSeq(pxs, 2)) \div Len(pxs))),
          panic |-> FALSE]
    ELSE IF Len(pxs) % 2 = 1
    THEN Pick({[color |-> RGB(r.v, g.v, b.v),
                panic |-> r.panic \/ g.panic \/ b.panic] :
                 r \in {nthElementR(pxs, Len(pxs) \div 2)},
                 g \in {nthElementG(pxs, Len(pxs) \div 2)},
                 b \in {nthElementB(pxs, Len(pxs) \div 2)}})
    ELSE Pick({[color |-> RGB(Uint8((r1.v + r2.v) \div 2),
                              Uint8((g1.v + g2.v) \div 2),
                              Uint8((b1.v + b2.v) \div 2)),
                panic |-> r1.panic \/ r2.panic \/ g1.panic \/ g2.panic
                          \/ b1.panic \/ b2.panic] :
                 r1 \in {nthElementR(pxs, Len(pxs) \div 2 - 1)},
                 r2 \in {nthElementR(pxs, Len(pxs) \div 2)},
                 g1 \in {nthElementG(pxs, Len(pxs) \div 2 - 1)},
                 g2 \in {nthElementG(pxs, Len(pxs) \div 2)},
                 b1 \in {nthElementB(pxs, Len(pxs) \div 2 - 1)},
                 b2 \in {nthElementB(pxs, Len(pxs) \div 2)}})

(***************************************************************************)
(* MedianCutPalette                                                        *)
(***************************************************************************)
\* mutant of PadWithLast: pads with the first entry
PadWithFirst(p, kk) ==
    IF Len(p) >= kk THEN [palette |-> p, panic |-> FALSE]
    ELSE IF Len(p) = 0 THEN [palette |-> p, panic |-> TRUE]
    ELSE [palette |-> p \o [i \in 1..(kk - Len(p)) |-> p[1]],
          panic   |-> FALSE]

\* for len(p) < kk { p = append(p, p[len(p)-1]) }: reading p[-1] of an empty
\* p is a runtime panic.  Returns [palette, panic].
PadWithLast(p, kk) ==
    IF Len(p) >= kk THEN [palette |-> p, panic |-> FALSE]
    ELSE IF Len(p) = 0 THEN [palette |-> p, panic |-> TRUE]
    ELSE [palette |-> p \o [i \in 1..(kk - Len(p)) |-> p[Len(p)]],
          panic   |-> FALSE]

\* the greatest of the three channel ranges of a box
maxRange(pxs) ==
    LET r  == channelRange(pxs, 0)
        g  == channelRange(pxs, 1)
        b  == channelRange(pxs, 2)
        m1 == IF g > r THEN g ELSE r
    IN  IF b > m1 THEN b ELSE m1

RECURSIVE WidestScanLastWins(_, _, _, _)
\* the scan with >= in place of >: the last box of the greatest range wins
WidestScanLastWins(bs, i, widestIdx, widestRange) ==
    IF i >= Len(bs) THEN widestIdx
    ELSE IF Len(At(bs, i)) <= 1 THEN WidestScanLastWins(bs, i + 1, widestIdx, widestRange)
    ELSE IF maxRange(At(bs, i)) >= widestRange
         THEN WidestScanLastWins(bs, i + 1, i, maxRange(At(bs, i)))
         ELSE WidestScanLastWins(bs, i + 1, widestIdx, widestRange)

widestIdxLastWins(bs) == WidestScanLastWins(bs, 0, -1, -1)

RECURSIVE WidestScan(_, _, _, _)
\* for i := range boxes { ... } from index i on, with the widestIdx and
\* widestRange found so far; returns widestIdx
WidestScan(bs, i, widestIdx, widestRange) ==
    IF i >= Len(bs) THEN widestIdx
    ELSE IF Len(At(bs, i)) <= 1 THEN WidestScan(bs, i + 1, widestIdx, widestRange)
    ELSE IF maxRange(At(bs, i)) > widestRange
         THEN WidestScan(bs, i + 1, i, maxRange(At(bs, i)))
         ELSE WidestScan(bs, i + 1, widestIdx, widestRange)

\* the box the split loop picks, -1 when none can be split
widestIdxOf(bs) == WidestScan(bs, 0, -1, -1)

\* the reduction of every box to its colour: [palette, panic]
reduceBoxes(bs) ==
    Pick({[palette |-> [i \in 1..Len(bs) |-> ms[i].color],
           panic   |-> \E i \in 1..Len(bs) : ms[i].panic] :
            ms \in {[i \in 1..Len(bs) |-> medianColor(bs[i])]}})

\* MedianCutPalette(pixels, kk) is called: the trivial cases return at once,
\* otherwise the split loop starts from a single box that aliases pixels.
MCP_Call ==
    /\ pc = "idle"
    /\ \E kk \in -1..MaxK :
        /\ k' = kk
        /\ orig' = pixels
        /\ IF kk <= 0
           THEN /\ palette' = <<>>
                /\ pc' = "built"
                /\ boxes' = boxes
           ELSE IF kk = 1
           THEN /\ palette' = <<averageColor(pixels)>>
                /\ pc' = "built"
                /\ boxes' = boxes
           ELSE IF Len(pixels) <= kk
           THEN /\ palette' = PadWithLast(pixels, kk).palette
                /\ pc' = IF PadWithLast(pixels, kk).panic THEN "panic" ELSE "built"
                /\ boxes' = boxes
           ELSE /\ palette' = palette
                /\ pc' = "split"
                /\ boxes' = <<pixels>>
    /\ UNCHANGED <<pixels, workers, coPalette, parts, partials, wg, wpc, counts>>
    /\ UNCHANGED fnVars

\* one iteration of the split loop that splits a box: the left half replaces
\* it, the right half is appended.  The box of the first split is the
\* caller's slice itself, which the selection reorders in place.
MCP_Split ==
    /\ pc = "split"
    /\ Len(boxes) < k
    /\ widestIdxOf(boxes) # -1
    /\ \E w \in {widestIdxOf(boxes)} :
       \E s \in {medianCutSplit(At(boxes, w))} :
           /\ boxes' = Append([boxes EXCEPT ![w + 1] = s.left], s.right)
           /\ pixels' = IF Len(boxes) = 1 THEN s.pxs ELSE pixels
           /\ pc' = IF s.panic THEN "panic" ELSE "split"
    /\ UNCHANGED <<k, orig, palette, workers, coPalette, parts, partials, wg, wpc, counts>>
    /\ UNCHANGED fnVars

\* the split loop ends (k boxes, or no box left to split); every box is
\* reduced to its colour and the palette is padded to k entries.
MCP_Reduce ==
    /\ pc = "split"
    /\ ~(Len(boxes) < k /\ widestIdxOf(boxes) # -1)
    /\ \E red \in {reduceBoxes(boxes)} :
       \E pad \in {PadWithLast(red.palette, k)} :
           /\ palette' = pad.palette
           /\ pc' = IF red.panic \/ pad.panic THEN "panic" ELSE "built"
    /\ UNCHANGED <<pixels, k, orig, boxes, workers, coPalette, parts, partials,
                   wg, wpc, counts>>
    /\ UNCHANGED fnVars

(***************************************************************************)
(* CountOccurrences                                                        *)
(***************************************************************************)
colorDistanceSqInt(a, b) ==
    LET dr == a.R - b.R
        dg == a.G - b.G
        db == a.B - b.B
    IN  dr * dr + dg * dg + db * db

RECURSIVE NearestScan(_, _, _, _, _)
\* for i := 1; i < len(palette); i++ { if d < best { best = d; bestIdx = i } }
NearestScan(px, pal, i, bestIdx, best) ==
    IF i >= Len(pal) THEN bestIdx
    ELSE IF colorDistanceSqInt(px, At(pal, i)) < best
         THEN NearestScan(px, pal, i + 1, i, colorDistanceSqInt(px, At(pal, i)))
         ELSE NearestScan(px, pal, i + 1, bestIdx, best)

RECURSIVE NearestScanLastWins(_, _, _, _, _)
NearestScanLastWins(px, pal, i, bestIdx, best) ==
    IF i >= Len(pal) THEN bestIdx
    ELSE IF colorDistanceSqInt(px, At(pal, i)) <= best
         THEN NearestScanLastWins(px, pal, i + 1, i, colorDistanceSqInt(px, At(pal, i)))
         ELSE NearestScanLastWins(px, pal, i + 1, bestIdx, best)

\* mutant of nearestIndex: d <= best, so the last of several nearest wins
nearestIndexLastWins(px, pal) ==
    NearestScanLastWins(px, pal, 1, 0, colorDistanceSqInt(px, At(pal, 0)))

\* bestIdx of the single-threaded loop for one pixel
nearestIndex(px, pal) ==
    NearestScan(px, pal, 1, 0, colorDistanceSqInt(px, At(pal, 0)))

RECURSIVE WorkerNearestScan(_, _, _, _, _)
\* the same scan as written in the worker goroutine
WorkerNearestScan(px, pal, i, bestIdx, best) ==
    IF i >= Len(pal) THEN bestIdx
    ELSE IF colorDistanceSqInt(px, At(pal, i)) < best
         THEN WorkerNearestScan(px, pal, i + 1, i, colorDistanceSqInt(px, At(pal, i)))
         ELSE WorkerNearestScan(px, pal, i + 1, bestIdx, best)

\* mutant of workerNearestIndex: the worker's scan takes the last nearest
workerNearestIndexLastWins(px, pal) ==
    NearestScanLastWins(px, pal, 1, 0, colorDistanceSqInt(px, At(pal, 0)))

\* bestIdx of the worker's loop for one pixel
workerNearestIndex(px, pal) ==
    WorkerNearestScan(px, pal, 1, 0, colorDistanceSqInt(px, At(pal, 0)))

Zeros(n) == [i \in 1..n |-> 0]

RECURSIVE countLoop(_, _, _, _)
\* for _, px := range pxs { ...; counts[bestIdx]++ } of the single-threaded
\* path, from index i on
countLoop(pxs, pal, i, cnt) ==
    IF i >= Len(pxs) THEN cnt
    ELSE Pick({countLoop(pxs, pal, i + 1, c2) :
                 c2 \in {[cnt EXCEPT ![nearestIndex(At(pxs, i), pal) + 1] = @ + 1]}})

RECURSIVE workerLoop(_, _, _, _)
\* for _, px := range pixels[pr.from:pr.to] { ...; cnt[bestIdx]++ } of a
\* worker, from index i of its chunk on
workerLoop(pxs, pal, i, cnt) ==
    IF i >= Len(pxs) THEN cnt
    ELSE Pick({workerLoop(pxs, pal, i + 1, c2) :
                 c2 \in {[cnt EXCEPT ![workerNearestIndex(At(pxs, i), pal) + 1] = @ + 1]}})

RECURSIVE PartsFrom(_, _, _)
\* for i := 0; i < n; i += step { j := i + step; if j > n { j = n }; append part{i, j} }
PartsFrom(i, n, step) ==
    IF ~(i < n) THEN <<>>
    ELSE <<[from |-> i, to |-> IF i + step > n THEN n ELSE i + step]>>
         \o PartsFrom(i + step, n, step)

\* mutant of makeParts: w chunks of floor(n / w) pixels, the remainder in none
makePartsFloor(n, w) ==
    [idx \in 1..w |-> [from |-> (idx - 1) * (n \div w), to |-> idx * (n \div w)]]

\* the chunks of n pixels for w workers
makeParts(n, w) == PartsFrom(0, n, (n + w - 1) \div w)

\* wg.Add(len(parts)) with one too few
wgAddOneShort(ps) == Len(ps) - 1

\* wg.Add(len(parts)): the count the WaitGroup starts from
wgAdd(ps) == Len(ps)

\* mutant of mergePartials: counts[i] = p[i], so only the last partial is kept
mergeLastPartial(ps, idx, cnt) ==
    IF Len(ps) = 0 THEN cnt ELSE ps[Len(ps)]

RECURSIVE mergePartials(_, _, _)
\* for _, p := range partials { for i := range counts { counts[i] += p[i] } },
\* from partial idx on
mergePartials(ps, idx, cnt) ==
    IF idx >= Len(ps) THEN cnt
    ELSE Pick({mergePartials(ps, idx + 1, c2) :
                 c2 \in {[i \in 1..Len(cnt) |-> cnt[i] + At(ps, idx)[i]]}})

\* CountOccurrences(pixels, pal) is called with GOMAXPROCS = w.  After
\* MedianCutPalette the caller passes the palette it returned; called on its
\* own, any palette.  Empty input and small input return at once; otherwise
\* the chunks are made and one goroutine per chunk is started.
CO_Call ==
    /\ pc \in {"idle", "built"}
    /\ \E w \in 1..MaxWorkers :
       \E pal \in (IF pc = "built" THEN {palette}
                                    ELSE SeqsUpTo(Colors, 0, MaxPaletteLen)) :
        /\ workers' = w
        /\ coPalette' = pal
        /\ IF Len(pal) = 0 \/ Len(pixels) = 0
           THEN /\ counts' = Zeros(Len(pal))
                /\ pc' = "counted"
                /\ UNCHANGED <<parts, partials, wg, wpc>>
           ELSE IF w < 2 \/ Len(pixels) < SmallInput
           THEN /\ counts' = countLoop(pixels, pal, 0, Zeros(Len(pal)))
                /\ pc' = "counted"
                /\ UNCHANGED <<parts, partials, wg, wpc>>
           ELSE /\ parts' = makeParts(Len(pixels), w)
                /\ partials' = [idx \in 1..Len(makeParts(Len(pixels), w)) |-> <<>>]
                /\ wg' = wgAdd(makeParts(Len(pixels), w))
                /\ wpc' = [idx \in 1..Len(makeParts(Len(pixels), w)) |-> "run"]
                /\ pc' = "par"
                /\ counts' = counts
    /\ UNCHANGED <<pixels, k, orig, boxes, palette>>
    /\ UNCHANGED fnVars

\* the goroutine of chunk idx runs its loop: it counts its chunk into a
\* histogram of its own (cnt, local to the goroutine) and stores it in
\* partials[idx].
CO_Worker(idx) ==
    /\ pc = "par"
    /\ wpc[idx + 1] = "run"
    /\ \E chunk \in {SubSeq(pixels, At(parts, idx).from + 1, At(parts, idx).to)} :
           partials' = [partials EXCEPT ![idx + 1] =
                           workerLoop(chunk, coPalette, 0, Zeros(Len(coPalette)))]
    /\ wpc' = [wpc EXCEPT ![idx + 1] = "stored"]
    /\ UNCHANGED <<pixels, k, orig, boxes, palette, pc, workers, coPalette,
                   parts, wg, counts>>
    /\ UNCHANGED fnVars

\* the goroutine of chunk idx returns: the deferred wg.Done() runs.
CO_WorkerDone(idx) ==
    /\ pc = "par"
    /\ wpc[idx + 1] = "stored"
    /\ wg > 0
    /\ wg' = wg - 1
    /\ wpc' = [wpc EXCEPT ![idx + 1] = "done"]
    /\ UNCHANGED <<pixels, k, orig, boxes, palette, pc, workers, coPalette,
                   parts, partials, counts>>
    /\ UNCHANGED fnVars

\* wg.Wait() returns once the counter is 0; the partial histograms are
\* merged.  Reading p[i] of a partial that is still nil is an index out of
\* range.
CO_Merge ==
    /\ pc = "par"
    /\ wg = 0
    /\ IF \E i \in 1..Len(partials) : partials[i] = <<>>
       THEN /\ pc' = "panic"
            /\ counts' = counts
       ELSE /\ counts' = mergePartials(partials, 0, Zeros(Len(coPalette)))
            /\ pc' = "counted"
    /\ UNCHANGED <<pixels, k, orig, boxes, palette, workers, coPalette, parts,
                   partials, wg, wpc>>
    /\ UNCHANGED fnVars

(***************************************************************************)
(* makeEntries                                                             *)
(***************************************************************************)
\* the entries before the sort, in palette order.  Index is the position
\* in the palette (not a field of PaletteEntry; kept to tell entries of
\* equal colour and count apart).  Share and Hex are functions of Count,
\* the total and Color and are left out.
entriesOf(pal, cnts) ==
    [i \in 1..Len(pal) |-> [Color |-> pal[i], Count |-> cnts[i], Index |-> i - 1]]

\* the less function handed to sort.Slice
entryLess(x, y) == x.Count > y.Count

\* sort.Slice(es, less): a permutation of es in which no element is less
\* than one before it.  The sort is not stable (package sort: "equal
\* elements may be reversed from their original order"), so every such
\* permutation is a possible result.
sortSlice(es) ==
    {[i \in 1..Len(es) |-> es[f[i]]] :
        f \in {g \in [1..Len(es) -> 1..Len(es)] :
                 /\ \A i, j \in 1..Len(es) : i # j => g[i] # g[j]
                 /\ \A i, j \in 1..Len(es) : i < j => ~entryLess(es[g[j]], es[g[i]])}}

\* the results makeEntries can return
makeEntries(pal, cnts) == sortSlice(entriesOf(pal, cnts))

\* no quickselect call is being stepped through
SelOff == [kind |-> "none", a |-> <<>>, n |-> 0, ch |-> 0, lo |-> 0, hi |-> 0,
           i |-> 0, j |-> 0, pivot |-> 0, p |-> 0, pc |-> "off"]

HarnessOff ==
    /\ fnOp = "none" /\ fnBuf = <<>> /\ fnRank = 0 /\ fnCh = 0 /\ fnArg = <<>>
    /\ fnOut = <<>> /\ fnPc = "off"

FnOff == HarnessOff /\ qs = SelOff

Init ==
    /\ pixels \in SeqsUpTo(Colors, 0, MaxPixels)
    /\ k = 0
    /\ orig = <<>>
    /\ boxes = <<>>
    /\ palette = <<>>
    /\ pc = "idle"
    /\ workers = 1
    /\ coPalette = <<>>
    /\ parts = <<>>
    /\ partials = <<>>
    /\ wg = 0
    /\ wpc = <<>>
    /\ counts = <<>>
    /\ FnOff

Next ==
    \/ MCP_Call
    \/ MCP_Split
    \/ MCP_Reduce
    \/ CO_Call
    \/ \E idx \in 0..(MaxWorkers - 1) : idx < Len(parts) /\ CO_Worker(idx)
    \/ \E idx \in 0..(MaxWorkers - 1) : idx < Len(parts) /\ CO_WorkerDone(idx)
    \/ CO_Merge

Spec == Init /\ [][Next]_vars

(***************************************************************************)
(* The function harness: a buffer, a rank and a channel are drawn, and one *)
(* function is applied to them.                                            *)
(***************************************************************************)
MainIdle ==
    /\ pixels = <<>> /\ k = 0 /\ orig = <<>> /\ boxes = <<>> /\ palette = <<>>
    /\ pc = "off" /\ workers = 1 /\ coPalette = <<>> /\ parts = <<>>
    /\ partials = <<>> /\ wg = 0 /\ wpc = <<>> /\ counts = <<>>

InitFn ==
    /\ MainIdle
    /\ qs = SelOff
    /\ \/ /\ fnOp = "nthElementByChannel"
          /\ fnBuf \in SeqsUpTo(Colors, 1, MaxBuf)
          /\ fnRank \in 0..(Len(fnBuf) - 1)
          /\ fnCh \in 0..2
          /\ fnArg = <<>>
       \/ /\ fnOp = "medianColor"
          /\ fnBuf \in SeqsUpTo(Colors, 1, MaxBuf)
          /\ fnRank = 0
          /\ fnCh = 0
          /\ fnArg = <<>>
       \/ /\ fnOp = "medianCutSplit"
          /\ fnBuf \in SeqsUpTo(Colors, 2, MaxBuf)
          /\ fnRank = 0
          /\ fnCh = 0
          /\ fnArg = <<>>
       \/ /\ fnOp = "makeParts"
          /\ fnBuf = <<>>
          /\ fnRank = 0
          /\ fnCh = 0
          /\ fnArg \in [n : ParallelThreshold..(ParallelThreshold + MaxExtra),
                        w : 2..MaxProcs]
       \/ /\ fnOp = "makeEntries"
          /\ fnBuf \in SeqsUpTo(Colors, 0, MaxEntries)
          /\ fnRank = 0
          /\ fnCh = 0
          /\ fnArg \in [1..Len(fnBuf) -> 0..MaxCount]
    /\ fnOut = <<>>
    /\ fnPc = "ready"

ApplyNthElementByChannel ==
    /\ fnPc = "ready"
    /\ fnOp = "nthElementByChannel"
    /\ fnOut' = nthElementByChannel(fnBuf, fnRank, fnCh)
    /\ fnPc' = "done"
    /\ UNCHANGED <<fnOp, fnBuf, fnRank, fnCh, fnArg, qs>>
    /\ UNCHANGED mainVars

ApplyMedianColor ==
    /\ fnPc = "ready"
    /\ fnOp = "medianColor"
    /\ fnOut' = medianColor(fnBuf)
    /\ fnPc' = "done"
    /\ UNCHANGED <<fnOp, fnBuf, fnRank, fnCh, fnArg, qs>>
    /\ UNCHANGED mainVars

ApplyMedianCutSplit ==
    /\ fnPc = "ready"
    /\ fnOp = "medianCutSplit"
    /\ fnOut' = medianCutSplit(fnBuf)
    /\ fnPc' = "done"
    /\ UNCHANGED <<fnOp, fnBuf, fnRank, fnCh, fnArg, qs>>
    /\ UNCHANGED mainVars

\* makeEntries(palette, counts) with len(counts) = len(palette): sort.Slice
\* may return any of the orders it allows
ApplyMakeEntries ==
    /\ fnPc = "ready"
    /\ fnOp = "makeEntries"
    /\ fnOut' \in makeEntries(fnBuf, fnArg)
    /\ fnPc' = "done"
    /\ UNCHANGED <<fnOp, fnBuf, fnRank, fnCh, fnArg, qs>>
    /\ UNCHANGED mainVars

\* the chunking of the parallel path for n pixels and w workers
ApplyMakeParts ==
    /\ fnPc = "ready"
    /\ fnOp = "makeParts"
    /\ fnOut' = makeParts(fnArg.n, fnArg.w)
    /\ fnPc' = "done"
    /\ UNCHANGED <<fnOp, fnBuf, fnRank, fnCh, fnArg, qs>>
    /\ UNCHANGED mainVars

NextFn ==
    \/ ApplyNthElementByChannel
    \/ ApplyMedianColor
    \/ ApplyMedianCutSplit
    \/ ApplyMakeEntries
    \/ ApplyMakeParts

SpecFn == InitFn /\ [][NextFn]_vars

(***************************************************************************)
(* The quickselects, one step per loop test or loop body.                  *)
(* qs.a is the buffer, qs.n the rank (k of quickSelectUint8), qs.ch the    *)
(* channel; lo, hi, i, j, pivot and p are the locals of the same name.     *)
(* qs.pc: "call", "loop" (at the test lo < hi), "scanI", "scanJ", "swap"   *)
(* (at the if i <= j), "ret" (partition returns), "done", "panic".         *)
(***************************************************************************)
\* a mutant of scanUpGoesOn: the scan also steps over keys equal to the pivot
scanUpGoesOnEqual(v, pivot) == v <= pivot

\* the test of the upward scan, for a[i] < pivot { i++ }
scanUpGoesOn(v, pivot) == v < pivot

\* the value partitionByChannel / partitionUint8 return
partitionReturn(i) == i - 1

\* the buffers the selectors are run on: the keys ascend with R, are all
\* equal on G and descend with B
SelColors == {RGB(v, 0, MaxKey - v) : v \in 0..MaxKey}

SelBuf == [kind |-> "none", a |-> <<>>, n |-> 0, ch |-> 0, lo |-> 0, hi |-> 0,
           i |-> 0, j |-> 0, pivot |-> 0, p |-> 0, pc |-> "call"]

InitSel ==
    /\ MainIdle
    /\ HarnessOff
    /\ \/ \E a \in SeqsUpTo(SelColors, 1, MaxSelLen) :
          \E n \in -1..Len(a) : \E ch \in 0..2 :
              qs = [SelBuf EXCEPT !.kind = "ByChannel", !.a = a, !.n = n, !.ch = ch]
       \/ \E a \in SeqsUpTo(0..MaxKey, 1, MaxSelLen) :
          \E n \in -1..Len(a) :
              qs = [SelBuf EXCEPT !.kind = "Uint8", !.a = a, !.n = n]

SelKeep == UNCHANGED mainVars /\ UNCHANGED <<fnOp, fnBuf, fnRank, fnCh, fnArg, fnOut, fnPc>>

\* nthElementByChannel: if n <= 0 || n >= len(a) { return }; lo, hi := 0, len(a)-1
NEBC_Call ==
    /\ qs.kind = "ByChannel" /\ qs.pc = "call"
    /\ qs' = IF qs.n <= 0 \/ qs.n >= Len(qs.a)
              THEN [qs EXCEPT !.pc = "done"]
              ELSE [qs EXCEPT !.lo = 0, !.hi = Len(qs.a) - 1, !.pc = "loop"]
    /\ SelKeep

\* for lo < hi { p := partitionByChannel(a, lo, hi, ch): pivot := a[(lo+hi)/2]; i, j := lo, hi
NEBC_Loop ==
    /\ qs.kind = "ByChannel" /\ qs.pc = "loop"
    /\ qs' = IF ~(qs.lo < qs.hi) THEN [qs EXCEPT !.pc = "done"]
              ELSE IF ~InRange(qs.a, (qs.lo + qs.hi) \div 2) THEN [qs EXCEPT !.pc = "panic"]
              ELSE [qs EXCEPT !.pivot = channelValue(At(qs.a, (qs.lo + qs.hi) \div 2), qs.ch),
                               !.i = qs.lo, !.j = qs.hi,
                               !.pc = IF qs.lo <= qs.hi THEN "scanI" ELSE "ret"]
    /\ SelKeep

\* for channelValue(a[i], ch) < pivot { i++ }
PBC_ScanI ==
    /\ qs.kind = "ByChannel" /\ qs.pc = "scanI"
    /\ qs' = IF ~InRange(qs.a, qs.i) THEN [qs EXCEPT !.pc = "panic"]
              ELSE IF scanUpGoesOn(channelValue(At(qs.a, qs.i), qs.ch), qs.pivot)
              THEN [qs EXCEPT !.i = qs.i + 1]
              ELSE [qs EXCEPT !.pc = "scanJ"]
    /\ SelKeep

\* for channelValue(a[j], ch) > pivot { j-- }
PBC_ScanJ ==
    /\ qs.kind = "ByChannel" /\ qs.pc = "scanJ"
    /\ qs' = IF ~InRange(qs.a, qs.j) THEN [qs EXCEPT !.pc = "panic"]
              ELSE IF channelValue(At(qs.a, qs.j), qs.ch) > qs.pivot
              THEN [qs EXCEPT !.j = qs.j - 1]
              ELSE [qs EXCEPT !.pc = "swap"]
    /\ SelKeep

\* if i <= j { a[i], a[j] = a[j], a[i]; i++; j-- }, then the test i <= j
PBC_Swap ==
    /\ qs.kind = "ByChannel" /\ qs.pc = "swap"
    /\ qs' = IF qs.i <= qs.j
              THEN [qs EXCEPT !.a = Swap(qs.a, qs.i, qs.j),
                               !.i = qs.i + 1, !.j = qs.j - 1,
                               !.pc = IF qs.i + 1 <= qs.j - 1 THEN "scanI" ELSE "ret"]
              ELSE [qs EXCEPT !.pc = "ret"]
    /\ SelKeep

\* return i - 1; then n == p: return; n < p: hi = p - 1; else lo = p + 1
NEBC_Ret ==
    /\ qs.kind = "ByChannel" /\ qs.pc = "ret"
    /\ \E p \in {partitionReturn(qs.i)} :
           qs' = IF qs.n = p THEN [qs EXCEPT !.p = p, !.pc = "done"]
                  ELSE IF qs.n < p THEN [qs EXCEPT !.p = p, !.hi = p - 1, !.pc = "loop"]
                  ELSE [qs EXCEPT !.p = p, !.lo = p + 1, !.pc = "loop"]
    /\ SelKeep

\* quickSelectUint8: if k >= len(arr) { k = len(arr) - 1 }; lo, hi := 0, len(arr)-1
QS_Call ==
    /\ qs.kind = "Uint8" /\ qs.pc = "call"
    /\ qs' = [qs EXCEPT !.n = IF qs.n >= Len(qs.a) THEN Len(qs.a) - 1 ELSE qs.n,
                          !.lo = 0, !.hi = Len(qs.a) - 1, !.pc = "loop"]
    /\ SelKeep

\* for lo < hi { p := partitionUint8(arr, lo, hi): pivot := arr[(lo+hi)/2]; i, j := lo, hi
\* and, when the loop ends, return arr[lo]
QS_Loop ==
    /\ qs.kind = "Uint8" /\ qs.pc = "loop"
    /\ qs' = IF ~(qs.lo < qs.hi)
              THEN [qs EXCEPT !.pc = IF InRange(qs.a, qs.lo) THEN "done" ELSE "panic"]
              ELSE IF ~InRange(qs.a, (qs.lo + qs.hi) \div 2) THEN [qs EXCEPT !.pc = "panic"]
              ELSE [qs EXCEPT !.pivot = At(qs.a, (qs.lo + qs.hi) \div 2),
                               !.i = qs.lo, !.j = qs.hi,
                               !.pc = IF qs.lo <= qs.hi THEN "scanI" ELSE "ret"]
    /\ SelKeep

\* for arr[i] < pivot { i++ }
PU8_ScanI ==
    /\ qs.kind = "Uint8" /\ qs.pc = "scanI"
    /\ qs' = IF ~InRange(qs.a, qs.i) THEN [qs EXCEPT !.pc = "panic"]
              ELSE IF scanUpGoesOn(At(qs.a, qs.i), qs.pivot)
              THEN [qs EXCEPT !.i = qs.i + 1]
              ELSE [qs EXCEPT !.pc = "scanJ"]
    /\ SelKeep

\* for arr[j] > pivot { j-- }
PU8_ScanJ ==
    /\ qs.kind = "Uint8" /\ qs.pc = "scanJ"
    /\ qs' = IF ~InRange(qs.a, qs.j) THEN [qs EXCEPT !.pc = "panic"]
              ELSE IF At(qs.a, qs.j) > qs.pivot
              THEN [qs EXCEPT !.j = qs.j - 1]
              ELSE [qs EXCEPT !.pc = "swap"]
    /\ SelKeep

\* if i <= j { arr[i], arr[j] = arr[j], arr[i]; i++; j-- }, then the test i <= j
PU8_Swap ==
    /\ qs.kind = "Uint8" /\ qs.pc = "swap"
    /\ qs' = IF qs.i <= qs.j
              THEN [qs EXCEPT !.a = Swap(qs.a, qs.i, qs.j),
                               !.i = qs.i + 1, !.j = qs.j - 1,
                               !.pc = IF qs.i + 1 <= qs.j - 1 THEN "scanI" ELSE "ret"]
              ELSE [qs EXCEPT !.pc = "ret"]
    /\ SelKeep

\* return i - 1; then k == p: return arr[k]; k < p: hi = p - 1; else lo = p + 1
QS_Ret ==
    /\ qs.kind = "Uint8" /\ qs.pc = "ret"
    /\ \E p \in {partitionReturn(qs.i)} :
           qs' = IF qs.n = p
                  THEN [qs EXCEPT !.p = p, !.pc = IF InRange(qs.a, qs.n) THEN "done" ELSE "panic"]
                  ELSE IF qs.n < p THEN [qs EXCEPT !.p = p, !.hi = p - 1, !.pc = "loop"]
                  ELSE [qs EXCEPT !.p = p, !.lo = p + 1, !.pc = "loop"]
    /\ SelKeep

NextSel ==
    \/ NEBC_Call
    \/ NEBC_Loop
    \/ PBC_ScanI
    \/ PBC_ScanJ
    \/ PBC_Swap
    \/ NEBC_Ret
    \/ QS_Call
    \/ QS_Loop
    \/ PU8_ScanI
    \/ PU8_ScanJ
    \/ PU8_Swap
    \/ QS_Ret

\* a call that is running keeps running: no step of it waits for anything
SpecSel == InitSel /\ [][NextSel]_vars /\ WF_vars(NextSel)

(***************************************************************************)
(* Properties of MedianCutPalette.                                         *)
(***************************************************************************)
\* the multiset of the elements of a sequence
SeqBag(s) ==
    [x \in {s[i] : i \in 1..Len(s)} |-> Cardinality({i \in 1..Len(s) : s[i] = x})]

RECURSIVE Flatten(_)
Flatten(bs) == IF bs = <<>> THEN <<>> ELSE Head(bs) \o Flatten(Tail(bs))

Uniform(s) == Len(s) >= 1 /\ \A i \in 1..Len(s) : s[i] = s[1]

\* C1: for every sample sequence (the empty one included) and every k,
\* MedianCutPalette completes without a runtime panic and returns exactly k
\* entries when k >= 1 and none when k <= 0.
C1_PaletteLengthNoPanic ==
    /\ pc # "panic"
    /\ pc = "built" => Len(palette) = (IF k >= 1 THEN k ELSE 0)

\* C7: in every state of the split loop every box is non-empty and the
\* boxes together hold exactly the multiset of the input samples.
C7_BoxesPartitionInput ==
    boxes # <<>> =>
        /\ \A i \in 1..Len(boxes) : Len(boxes[i]) >= 1
        /\ SeqBag(Flatten(boxes)) = SeqBag(orig)

C7_Witness ==
    /\ pc = "split"
    /\ Len(boxes) = 3
    /\ pixels # orig
    /\ \E i \in 1..Len(boxes) : Len(boxes[i]) = 2 /\ boxes[i][1] # boxes[i][2]

\* C8: with 1 <= len(pixels) <= k and k >= 2 the palette is the input in its
\* order followed by k - len(pixels) copies of the last input sample, and the
\* input slice is left as it was.
C8_FewSamplesCopiedAndPadded ==
    (pc = "built" /\ k >= 2 /\ Len(orig) >= 1 /\ Len(orig) <= k) =>
        /\ Len(palette) = k
        /\ \A i \in 1..k :
               palette[i] = (IF i <= Len(orig) THEN orig[i] ELSE orig[Len(orig)])
        /\ pixels = orig

C8_Witness ==
    /\ pc = "built"
    /\ k = 4
    /\ Len(orig) = 2
    /\ orig[1] # orig[2]
    /\ palette[4] = orig[2]

\* C9: with k = 1 and a non-empty input the palette is one colour, each
\* channel of it the mean of that channel over all samples rounded to the
\* nearest integer, halves away from zero, and within 0..255.
C9_SingleColourIsRoundedMean ==
    (pc = "built" /\ k = 1 /\ Len(orig) >= 1) =>
        /\ Len(palette) = 1
        /\ \A ch \in 0..2 :
               LET v   == channelValue(palette[1], ch)
                   sum == SeqSum(ChannelSeq(orig, ch))
                   n   == Len(orig)
               IN  /\ v \in 0..255
                   /\ 2 * v * n <= 2 * sum + n
                   /\ 2 * sum + n < 2 * v * n + 2 * n

\* the mean of channel R is exactly a half above an integer, and rounds up
C9_Witness ==
    /\ pc = "built"
    /\ k = 1
    /\ Len(orig) = 2
    /\ SeqSum(ChannelSeq(orig, 0)) = 1
    /\ palette = <<RGB(1, 0, 0)>>

(***************************************************************************)
(* Properties of CountOccurrences.                                         *)
(***************************************************************************)
SqDist(a, b) ==
    (a.R - b.R) * (a.R - b.R) + (a.G - b.G) * (a.G - b.G) + (a.B - b.B) * (a.B - b.B)

\* the lowest index (0-based) of a palette entry nearest to px
LowestNearest(px, pal) ==
    CHOOSE i \in 0..(Len(pal) - 1) :
        /\ \A j \in 0..(Len(pal) - 1) : SqDist(px, At(pal, i)) <= SqDist(px, At(pal, j))
        /\ \A j \in 0..(i - 1) : SqDist(px, At(pal, j)) > SqDist(px, At(pal, i))

\* CountOccurrences returned from its fan-out path
ParallelDone == pc = "counted" /\ Len(parts) > 0

\* C4: for every non-empty palette the histogram has one count per palette
\* entry, no count is negative and the counts sum to len(pixels), on the
\* single-threaded and on the fan-out path.
C4_HistogramSumsToPixels ==
    (pc = "counted" /\ Len(coPalette) > 0) =>
        /\ Len(counts) = Len(coPalette)
        /\ \A i \in 1..Len(counts) : counts[i] >= 0
        /\ SeqSum(counts) = Len(pixels)

\* reached on the fan-out path, with a remainder chunk and two entries counted
C4_Witness ==
    /\ ParallelDone
    /\ Len(pixels) = 3
    /\ Len(parts) = 2
    /\ Len(coPalette) = 2
    /\ counts[1] > 0
    /\ counts[2] > 0

\* C5: every sample is counted at the palette index of least squared
\* distance to it, the lowest such index when several are equally near:
\* counts[i] is the number of samples whose lowest nearest index is i.
C5_CountsAreLowestNearest ==
    (pc = "counted" /\ Len(coPalette) > 0) =>
        /\ Len(counts) = Len(coPalette)
        /\ \A i \in 0..(Len(coPalette) - 1) :
               At(counts, i) =
                   Cardinality({p \in 1..Len(pixels) :
                                   LowestNearest(pixels[p], coPalette) = i})

\* a sample equally near to two distinct palette colours is counted at the
\* first, and another sample is strictly nearer to the second
C5_Witness ==
    /\ pc = "counted"
    /\ Len(coPalette) = 2
    /\ coPalette[1] # coPalette[2]
    /\ \E p \in 1..Len(pixels) :
           SqDist(pixels[p], coPalette[1]) = SqDist(pixels[p], coPalette[2])
    /\ \E p \in 1..Len(pixels) :
           SqDist(pixels[p], coPalette[2]) < SqDist(pixels[p], coPalette[1])
    /\ counts[1] > 0
    /\ counts[2] > 0

\* C6: the histogram of the fan-out path equals, element by element, the
\* histogram the single-threaded loop computes for the same pixels and
\* palette, for every worker count >= 2 and every order in which the
\* workers run and finish.
C6_ParallelEqualsSequential ==
    ParallelDone =>
        counts = countLoop(pixels, coPalette, 0, Zeros(Len(coPalette)))

C6_Witness ==
    /\ ParallelDone
    /\ workers = 3
    /\ Len(parts) = 3
    /\ Len(coPalette) = 2
    /\ counts[1] > 0
    /\ counts[2] > 0

\* C10: when all n >= 1 samples are one colour c and k >= 1, the palette is k
\* entries equal to c, and the histogram of those samples against that
\* palette is [n, 0, ..., 0].
C10_UniformInput ==
    (Uniform(orig) /\ k >= 1) =>
        /\ pc \in {"built", "par", "counted"} =>
               palette = [i \in 1..k |-> orig[1]]
        /\ pc = "counted" =>
               counts = [i \in 1..k |-> IF i = 1 THEN Len(orig) ELSE 0]

\* uniform input through the split loop and the fan-out path
C10_Witness ==
    /\ pc = "counted"
    /\ Uniform(orig)
    /\ Len(orig) = 4
    /\ k = 3
    /\ Len(boxes) = 3
    /\ Len(parts) >= 2
    /\ counts = <<4, 0, 0>>

(***************************************************************************)
(* Order statistics, stated independently of the selection code.           *)
(***************************************************************************)
\* the r-th smallest (0-indexed) of the values of the sequence s
RthSmallest(s, r) ==
    CHOOSE v \in {s[i] : i \in 1..Len(s)} :
        /\ Cardinality({i \in 1..Len(s) : s[i] < v}) <= r
        /\ r < Cardinality({i \in 1..Len(s) : s[i] <= v})

\* C2: after nthElementByChannel(a, r, ch) with 0 <= r < len(a) the buffer is a
\* permutation of its original contents, the channel value at index r is the
\* true r-th smallest, every element before index r is <= it and every
\* element after index r is >= it.
C2_SelectorPostcondition ==
    (fnPc = "done" /\ fnOp = "nthElementByChannel") =>
        LET a == fnOut.a
            v == channelValue(At(a, fnRank), fnCh)
        IN  /\ ~fnOut.panic
            /\ SeqBag(a) = SeqBag(fnBuf)
            /\ v = RthSmallest(ChannelSeq(fnBuf, fnCh), fnRank)
            /\ \A i \in 0..(Len(a) - 1) :
                   /\ (i < fnRank => channelValue(At(a, i), fnCh) <= v)
                   /\ (i > fnRank => channelValue(At(a, i), fnCh) >= v)

\* the median of the values of s: the middle value for an odd count, the
\* average of the two middle values rounded to the nearest integer for an
\* even count
TrueMedian(s) ==
    LET n == Len(s)
    IN  IF n % 2 = 1 THEN RthSmallest(s, n \div 2)
        ELSE (RthSmallest(s, n \div 2 - 1) + RthSmallest(s, n \div 2) + 1) \div 2

\* C3: for every non-empty box medianColor returns, for each of R, G and B,
\* the per-channel median of the box (odd count: the middle value; even
\* count: the rounded average of the two middle values).
C3_MedianColorIsMedian ==
    (fnPc = "done" /\ fnOp = "medianColor") =>
        /\ ~fnOut.panic
        /\ fnOut.color = RGB(TrueMedian(ChannelSeq(fnBuf, 0)),
                             TrueMedian(ChannelSeq(fnBuf, 1)),
                             TrueMedian(ChannelSeq(fnBuf, 2)))

(***************************************************************************)
(* Properties of makeEntries and medianCutSplit.                           *)
(***************************************************************************)
\* C11: makeEntries returns one entry per palette colour, ordered by
\* non-increasing count, entries of equal count in palette index order.
C11_EntriesSortedStable ==
    (fnPc = "done" /\ fnOp = "makeEntries") =>
        /\ Len(fnOut) = Len(fnBuf)
        /\ \A x \in 0..(Len(fnBuf) - 1) :
               \E i \in 1..Len(fnOut) :
                   fnOut[i] = [Color |-> At(fnBuf, x), Count |-> At(fnArg, x), Index |-> x]
        /\ \A i, j \in 1..Len(fnOut) :
               i < j => /\ fnOut[i].Count >= fnOut[j].Count
                        /\ (fnOut[i].Count = fnOut[j].Count =>
                                fnOut[i].Index < fnOut[j].Index)

\* the channel of greatest range (max - min), R before G before B on ties
WidestChannel(pxs) ==
    LET rng(ch) == SetMax({channelValue(pxs[i], ch) : i \in 1..Len(pxs)})
                   - SetMin({channelValue(pxs[i], ch) : i \in 1..Len(pxs)})
    IN  CHOOSE ch \in 0..2 :
            /\ \A c \in 0..2 : rng(c) <= rng(ch)
            /\ \A c \in 0..(ch - 1) : rng(c) < rng(ch)

\* C12: for a box of n >= 2 samples medianCutSplit returns a left half of
\* floor(n/2) samples and a right half of the other n - floor(n/2), and on
\* the dominant channel every sample of the left half is <= every sample of
\* the right half.
C12_SplitHalvesOrdered ==
    (fnPc = "done" /\ fnOp = "medianCutSplit") =>
        /\ ~fnOut.panic
        /\ Len(fnOut.left) = Len(fnBuf) \div 2
        /\ Len(fnOut.right) = Len(fnBuf) - Len(fnBuf) \div 2
        /\ \A i \in 1..Len(fnOut.left) : \A j \in 1..Len(fnOut.right) :
               channelValue(fnOut.left[i], WidestChannel(fnBuf))
                   <= channelValue(fnOut.right[j], WidestChannel(fnBuf))

(***************************************************************************)
(* The split loop of MedianCutPalette.                                     *)
(***************************************************************************)
\* the greatest channel range (max - min) of a box
BoxRange(pxs) ==
    SetMax({SetMax({channelValue(pxs[i], ch) : i \in 1..Len(pxs)})
            - SetMin({channelValue(pxs[i], ch) : i \in 1..Len(pxs)}) : ch \in 0..2})

\* one iteration of the split loop that splits a box
SplitStepOK ==
    /\ Len(boxes) < k
    /\ Len(boxes') = Len(boxes) + 1
    /\ \E w \in 1..Len(boxes) :
           /\ Len(boxes[w]) >= 2
           /\ \A i \in 1..Len(boxes) :
                  Len(boxes[i]) >= 2 =>
                      /\ BoxRange(boxes[i]) <= BoxRange(boxes[w])
                      /\ (i < w => BoxRange(boxes[i]) < BoxRange(boxes[w]))
           /\ \A i \in 1..Len(boxes) : i # w => boxes'[i] = boxes[i]
           /\ boxes'[w] = medianCutSplit(boxes[w]).left
           /\ boxes'[Len(boxes) + 1] = medianCutSplit(boxes[w]).right

\* C13: every iteration of the split loop splits a box of at least 2
\* samples whose greatest channel range is >= that of every other box of at
\* least 2 samples, the lowest-indexed such box; the left half replaces it
\* at its index and the right half is appended; the loop is left with fewer
\* than k boxes only when no box has 2 or more samples.
C13_SplitLoopChoice ==
    [][ /\ (pc = "split" /\ boxes' # boxes) => SplitStepOK
        /\ (pc = "split" /\ boxes' = boxes /\ pc' # "split" /\ Len(boxes) < k) =>
               \A i \in 1..Len(boxes) : Len(boxes[i]) <= 1 ]_vars

\* the loop has split the first of two boxes of equal range and goes on
\* with one-sample boxes around the only box it can still split
C13_Witness ==
    /\ pc = "split"
    /\ k = 4
    /\ Len(boxes) = 3
    /\ Len(boxes[1]) = 1 /\ Len(boxes[2]) = 3 /\ Len(boxes[3]) = 1
    /\ BoxRange(boxes[2]) > 0
    /\ BoxRange(boxes[1] \o boxes[3]) = BoxRange(boxes[2])

(***************************************************************************)
(* The chunks of the parallel path of CountOccurrences.                    *)
(***************************************************************************)
\* the least q with q * b >= a, for a >= 0 and b > 0
CeilQuot(a, b) == CHOOSE q \in 0..a : q * b >= a /\ (q - 1) * b < a

\* ps are contiguous, non-empty index ranges that cover [0, n) once
ChunksTile(ps, n) ==
    /\ Len(ps) >= 1
    /\ ps[1].from = 0
    /\ ps[Len(ps)].to = n
    /\ \A i \in 1..Len(ps) : ps[i].from < ps[i].to
    /\ \A i \in 1..(Len(ps) - 1) : ps[i + 1].from = ps[i].to

\* every chunk but the last has the same size and the last one holds what
\* is left over
LastTakesRemainder(ps) ==
    \A i \in 1..(Len(ps) - 1) : ps[i].to - ps[i].from = ps[1].to - ps[1].from

\* C14 as stated: on the parallel path the chunks are contiguous,
\* non-overlapping, cover [0, n) once, none is empty, there are exactly w of
\* them and the last one takes the remainder.
C14_ChunksEqualWorkers ==
    (fnPc = "done" /\ fnOp = "makeParts") =>
        /\ ChunksTile(fnOut, fnArg.n)
        /\ LastTakesRemainder(fnOut)
        /\ Len(fnOut) = fnArg.w

\* C14 amended: on the parallel path the chunks are contiguous,
\* non-overlapping, cover [0, n) once and none is empty; every chunk but
\* the last holds step = ceil(n / w) pixels and the last holds the
\* remaining 1..step; the number of chunks is ceil(n / step), which is at
\* most w and can be less.
C14_ChunksAtMostWorkers ==
    (fnPc = "done" /\ fnOp = "makeParts") =>
        /\ ChunksTile(fnOut, fnArg.n)
        /\ \A i \in 1..(Len(fnOut) - 1) :
               fnOut[i].to - fnOut[i].from = CeilQuot(fnArg.n, fnArg.w)
        /\ fnOut[Len(fnOut)].to - fnOut[Len(fnOut)].from
               \in 1..CeilQuot(fnArg.n, fnArg.w)
        /\ Len(fnOut) = CeilQuot(fnArg.n, CeilQuot(fnArg.n, fnArg.w))
        /\ Len(fnOut) <= fnArg.w

\* a chunking with fewer chunks than workers
C14_Witness ==
    /\ fnPc = "done"
    /\ fnOp = "makeParts"
    /\ Len(fnOut) < fnArg.w

(***************************************************************************)
(* Fork and join of the parallel path of CountOccurrences.                 *)
(***************************************************************************)
\* the pixels of chunk i (1-based)
ChunkOf(i) == SubSeq(pixels, parts[i].from + 1, parts[i].to)

\* slot i of partials holds the whole histogram of chunk i
FullPartial(i) ==
    /\ Len(partials[i]) = Len(coPalette)
    /\ \A c \in 1..Len(coPalette) :
           partials[i][c] =
               Cardinality({x \in 1..Len(ChunkOf(i)) :
                               LowestNearest(ChunkOf(i)[x], coPalette) = c - 1})

\* during the parallel phase: one goroutine and one slot per chunk, a slot
\* is nil until its goroutine has stored its whole histogram, and the
\* WaitGroup counts the goroutines that have not finished
ForkJoinState ==
    pc = "par" =>
        /\ Len(wpc) = Len(parts)
        /\ Len(partials) = Len(parts)
        /\ \A i \in 1..Len(parts) :
               IF wpc[i] = "run" THEN partials[i] = <<>> ELSE FullPartial(i)
        /\ wg = Cardinality({i \in 1..Len(parts) : wpc[i] # "done"})

\* a step of the parallel phase: pixels and palette stay as they are, a
\* slot of partials is written once, by the goroutine of its chunk and
\* alone, and the merge follows only when every goroutine has finished
ForkJoinStep ==
    pc = "par" =>
        /\ pixels' = pixels
        /\ coPalette' = coPalette
        /\ \A i \in 1..Len(partials) :
               partials'[i] # partials[i] =>
                   /\ wpc[i] = "run" /\ wpc'[i] = "stored"
                   /\ \A j \in 1..Len(partials) :
                          j # i => partials'[j] = partials[j] /\ wpc'[j] = wpc[j]
        /\ pc' # "par" =>
               /\ pc' = "counted"
               /\ \A i \in 1..Len(parts) : wpc[i] = "done" /\ FullPartial(i)

\* C15: one goroutine per chunk; a goroutine writes only its own slot of
\* partials; pixels and palette are not written during the parallel phase;
\* the merge reads partials only after every goroutine has finished, so it
\* never reads a nil or incomplete partial histogram.
C15_ForkJoin == [](ForkJoinState) /\ [][ForkJoinStep]_vars

\* three goroutines at three different points of their run
C15_Witness ==
    /\ pc = "par"
    /\ Len(parts) = 3
    /\ wpc = <<"done", "run", "stored">>
    /\ wg = 2

(***************************************************************************)
(* Termination and bounds of the quickselects.                             *)
(***************************************************************************)
\* a partition call returns p within [lo, hi], and the iteration that goes
\* on does so with a strictly smaller range inside the old one
SelRetStep ==
    qs.pc = "ret" =>
        /\ qs.lo <= qs'.p /\ qs'.p <= qs.hi
        /\ qs'.pc = "loop" =>
               /\ qs.lo <= qs'.lo /\ qs'.hi <= qs.hi
               /\ qs'.hi - qs'.lo < qs.hi - qs.lo

\* C16: for every non-empty buffer and every rank both quickselects
\* terminate, never read outside the buffer, every partition call returns
\* p with lo <= p <= hi, and [lo, hi] strictly shrinks on every iteration.
C16_SelectTerminatesInBounds ==
    /\ [](qs.pc # "panic")
    /\ [][SelRetStep]_vars
    /\ <>(qs.pc = "done")

\* a call on an already sorted buffer of 5 keys, not all equal, that took a
\* second partition call and returned from it
C16_Witness ==
    /\ qs.pc = "done"
    /\ Len(qs.a) = 5
    /\ qs.kind = "ByChannel"
    /\ qs.ch = 0
    /\ \A x \in 1..4 : qs.a[x].R <= qs.a[x + 1].R
    /\ qs.a[1].R < qs.a[5].R
    /\ qs.lo > 0 /\ qs.hi < 4

====
